---- MODULE Spec2Model ----
(***************************************************************************)
(* KVStore / KVClient ownership protocol of package kvcache                *)
(* (src/duality/kvcache/kvcache.go) and the demonstration driver           *)
(* (src/unnamed/part_002).                                                 *)
(*                                                                         *)
(* Every goroutine is a process whose position is a pc value; an action is *)
(* the code a goroutine runs between two blocking channel operations.      *)
(* A reply channel is created per request by the requester, which has at   *)
(* most one request outstanding, so a reply channel is named by the        *)
(* requester that made it.                                                 *)
(***************************************************************************)
EXTENDS Integers, Sequences, FiniteSets, TLC

\* ----- bounds of the model -----
NClients == 2      \* KVClient goroutines of the system
NRequesters == 3   \* goroutines that talk to KVStore directly
MaxGhost == 2      \* cap of the history counter grants
NReq == 3          \* goose: the largest number of requests asked of Loadgen
ChanCap == 1       \* goose: capacity of reqCh and of repCh
MaxConc == 2       \* goose: the largest maxConcurrent tried

\* ----- program constants -----
val1 == 42
val2 == 7

KVRead == "read"
KVWrite == "write"
ClientGet == "get"
ClientPut == "put"

Keys == {"alpha", "beta"}
ProcNames == <<"client1", "client2", "client3", "client4", "client5">>
Clients == {ProcNames[i] : i \in 1..NClients}
Requesters == {ProcNames[i] : i \in 1..NRequesters}
Procs == Clients \cup Requesters \cup {"client1", "client2"}
\* values are opaque to the program: callers write the two seed values of the
\* demonstration, and 0 is what a first Read creates
Values == {val1, val2}
Ops == {KVRead, KVWrite, "bogus"}
ActionTypes == {ClientGet, ClientPut, "bogus"}

VARIABLES
  store,                 \* KVStore: map[string]int
  isKeyOwned_store,      \* KVStore: map[string]bool
  waitingclients_store,  \* KVStore: map[string]KVRequest
  storePC,               \* "recv" | "reply" | "grant" | "done"
  storeReq,              \* the request the loop body is processing
  storeOut,              \* the reply the store is blocked sending
  kvReqClosed,           \* close(kvReqCh) has happened
  pc,                    \* per requester: "idle","sendKV","recvKV","handle","reply","done"
  cache,                 \* KVClient: map[string]int, per client
  clientAct,             \* the ClientAction a client is processing / processed last
  kvReq,                 \* the KVRequest a requester built, until it is replied to
  kvResp,                \* the KVReply a requester received
  clientReply,           \* the ClientReply a client is about to send
  released,              \* history: the key a client's last action released, or ""
  actionsClosed,         \* close(clientNCh) has happened
  mainPC,                \* demo driver: [i, phase]
  mainLog,               \* demo driver: the replies it printed
  pendingCh,             \* demo driver: the buffered channel pending.Reply
  args,                  \* demo driver: <<val1, val2>> of the command line
  grants,                \* history: Read grants on a key since the last successful Write
  lastPut,               \* history: value of the last successful Write per key
  maxConcurrent,         \* goose: the argument of ReqHandler
  reqCh,                 \* goose: the buffered request channel, ClientIDs in order
  reqChClosed,           \* goose: close(reqCh) has happened
  repCh,                 \* goose: the buffered reply channel, ClientIDs in order
  permissions,           \* goose ReqHandler: number of permits in the channel
  handlerPC,             \* goose ReqHandler: "range" | "acquire" | "done"
  handlerReq,            \* goose ReqHandler: req, the request taken from reqCh, or -1
  servePC,               \* goose serve, per request: "none","work","reply","bye","done"
  loadgenPC,             \* goose Loadgen: "start","loop","upcall","returned"; main: "checked","closed"
  loadN,                 \* goose Loadgen: n, the number of requests to generate
  sentAttempts,          \* goose Loadgen
  nextClientID,          \* goose Loadgen
  wasSent,               \* goose Loadgen: whether the send of the last arrival went through
  attempts,              \* goose stats
  sent,                  \* goose stats
  skipped,               \* goose stats
  received,              \* goose stats
  sendTimes              \* goose stats: the ClientIDs that have a send time

storeVars == <<store, isKeyOwned_store, waitingclients_store, storePC, storeReq,
               storeOut, grants, lastPut>>
clientVars == <<cache, clientAct, clientReply, released>>
portVars == <<pc, kvReq, kvResp>>
mainVars == <<mainPC, mainLog, pendingCh, args, actionsClosed, kvReqClosed>>
kvVars == <<store, isKeyOwned_store, waitingclients_store, storePC, storeReq,
            storeOut, kvReqClosed, pc, cache, clientAct, kvReq, kvResp,
            clientReply, released, actionsClosed, mainPC, mainLog, pendingCh, args,
            grants, lastPut>>
statVars == <<attempts, sent, skipped, received, sendTimes>>
loadgenVars == <<loadgenPC, loadN, sentAttempts, nextClientID, wasSent>>
handlerVars == <<maxConcurrent, permissions, handlerPC, handlerReq, servePC>>
gooseVars == <<reqCh, reqChClosed, repCh, handlerVars, loadgenVars, statVars>>
vars == <<kvVars, gooseVars>>

\* ----- Go maps: a function whose domain is the set of present keys -----
EmptyMap == [x \in {} |-> 0]
MapSet(m, k, v) == [x \in (DOMAIN m) \cup {k} |-> IF x = k THEN v ELSE m[x]]
MapDel(m, k) == [x \in (DOMAIN m) \ {k} |-> m[x]]
Has(m, k) == k \in DOMAIN m

\* ----- message types -----
NoReq == [Op |-> "none", Key |-> "", Value |-> 0, Reply |-> ""]
NoKVReply == [Value |-> 0, Ok |-> FALSE, Set |-> FALSE]
NoOut == [to |-> "", Value |-> 0, Ok |-> FALSE]
NoAct == [Type |-> "none", Key |-> "", Value |-> 0, Reply |-> ""]
NoReply == [Value |-> 0, Hit |-> FALSE, Ok |-> FALSE, Err |-> "", Set |-> FALSE]
KVRequest(op, key, value, reply) == [Op |-> op, Key |-> key, Value |-> value, Reply |-> reply]
KVReply(value, ok) == [Value |-> value, Ok |-> ok, Set |-> TRUE]
\* Reply names the channel: "do" is unbuffered with the caller receiving on it,
\* "pending" is the buffered channel of the demonstration
ClientAction(type, key, value, reply) ==
  [Type |-> type, Key |-> key, Value |-> value, Reply |-> reply]
ClientReply(value, hit, ok, err) == [Value |-> value, Hit |-> hit, Ok |-> ok, Err |-> err, Set |-> TRUE]

\* the worker pool and the load generator before anything has run: the package
\* variables of the statistics have their zero values
InitGoose ==
  /\ reqCh = << >>
  /\ reqChClosed = FALSE
  /\ repCh = << >>
  /\ permissions = 0
  /\ handlerPC = "range"
  /\ handlerReq = -1
  /\ servePC = [i \in 0 .. (NReq - 1) |-> "none"]
  /\ loadgenPC = "start"
  /\ sentAttempts = 0
  /\ nextClientID = 0
  /\ wasSent = FALSE
  /\ attempts = 0
  /\ sent = 0
  /\ skipped = 0
  /\ received = 0
  /\ sendTimes = {}

\* the key-value program before anything has run
InitKV ==
  /\ store = EmptyMap
  /\ isKeyOwned_store = EmptyMap
  /\ waitingclients_store = EmptyMap
  /\ storePC = "recv"
  /\ storeReq = NoReq
  /\ storeOut = NoOut
  /\ kvReqClosed = FALSE
  /\ pc = [r \in Procs |-> "idle"]
  /\ cache = [r \in Procs |-> EmptyMap]
  /\ clientAct = [r \in Procs |-> NoAct]
  /\ kvReq = [r \in Procs |-> NoReq]
  /\ kvResp = [r \in Procs |-> NoKVReply]
  /\ clientReply = [r \in Procs |-> NoReply]
  /\ released = [r \in Procs |-> ""]
  /\ actionsClosed = [r \in Procs |-> FALSE]
  /\ mainLog = << >>
  /\ pendingCh = << >>
  /\ grants = [k \in Keys |-> 0]
  /\ lastPut = EmptyMap

\* the key-value program alone: the worker pool does not run
InitProgram == InitKV /\ InitGoose /\ maxConcurrent = 0 /\ loadN = 0

\* main is at its first call
MainStart == mainPC = [i |-> 1, phase |-> "send"]

Init == InitProgram /\ MainStart /\ args = <<val1, val2>>

\* ======================= KVStore (kvcache.go 61-122) =======================

\* mutation: ownership is not tracked
IsKeyOwned_untracked(k) == FALSE

\* isKeyOwned_store[k]: a missing key reads as false
IsKeyOwned(k) == Has(isKeyOwned_store, k) /\ isKeyOwned_store[k]

\* mutation: a missing key is answered with 0 but not created
WithDefault_skip(m, k) == m

\* val, ok := m[k]; if !ok { m[k] = 0; val = 0 }
WithDefault(m, k) == IF Has(m, k) THEN m ELSE MapSet(m, k, 0)
ValueOf(m, k) == IF Has(m, k) THEN m[k] ELSE 0

Bump(n) == IF n < MaxGhost THEN n + 1 ELSE n

\* mutation: a Read on an owned key is dropped instead of recorded as the waiter
StoreRead_forget(req) ==
  IF ~IsKeyOwned(req.Key)
  THEN /\ isKeyOwned_store' = MapSet(isKeyOwned_store, req.Key, TRUE)
       /\ store' = WithDefault(store, req.Key)
       /\ storeOut' = [to |-> req.Reply, Value |-> ValueOf(store, req.Key), Ok |-> TRUE]
       /\ storePC' = "reply"
       /\ storeReq' = req
       /\ UNCHANGED waitingclients_store
  ELSE /\ storePC' = "recv"
       /\ storeReq' = NoReq
       /\ UNCHANGED <<store, isKeyOwned_store, storeOut, waitingclients_store>>

\* mutation: every Read is answered at once, as in a store without ownership
StoreRead_noWait(req) ==
  /\ isKeyOwned_store' = MapSet(isKeyOwned_store, req.Key, TRUE)
  /\ store' = WithDefault(store, req.Key)
  /\ storeOut' = [to |-> req.Reply, Value |-> ValueOf(store, req.Key), Ok |-> TRUE]
  /\ storePC' = "reply"
  /\ storeReq' = req
  /\ UNCHANGED waitingclients_store

\* mutation: a key keeps its first waiter, a later Read on it is dropped
StoreRead_keepFirst(req) ==
  IF ~IsKeyOwned(req.Key)
  THEN /\ isKeyOwned_store' = MapSet(isKeyOwned_store, req.Key, TRUE)
       /\ store' = WithDefault(store, req.Key)
       /\ storeOut' = [to |-> req.Reply, Value |-> ValueOf(store, req.Key), Ok |-> TRUE]
       /\ storePC' = "reply"
       /\ storeReq' = req
       /\ UNCHANGED waitingclients_store
  ELSE /\ waitingclients_store' =
            IF Has(waitingclients_store, req.Key)
            THEN waitingclients_store
            ELSE MapSet(waitingclients_store, req.Key, req)
       /\ storePC' = "recv"
       /\ storeReq' = NoReq
       /\ UNCHANGED <<store, isKeyOwned_store, storeOut>>

\* case KVRead, up to the point where the loop body blocks or ends
StoreRead(req) ==
  IF ~IsKeyOwned(req.Key)
  THEN /\ isKeyOwned_store' = MapSet(isKeyOwned_store, req.Key, TRUE)
       /\ store' = WithDefault(store, req.Key)
       /\ storeOut' = [to |-> req.Reply, Value |-> ValueOf(store, req.Key), Ok |-> TRUE]
       /\ storePC' = "reply"
       /\ storeReq' = req
       /\ UNCHANGED waitingclients_store
  ELSE /\ waitingclients_store' = MapSet(waitingclients_store, req.Key, req)
       /\ storePC' = "recv"
       /\ storeReq' = NoReq
       /\ UNCHANGED <<store, isKeyOwned_store, storeOut>>

\* mutation: a Write creates a missing key instead of failing
StoreWrite_upsert(req) ==
  /\ store' = MapSet(store, req.Key, req.Value)
  /\ storeOut' = [to |-> req.Reply, Value |-> req.Value, Ok |-> TRUE]
  /\ storePC' = "reply"
  /\ storeReq' = req
  /\ UNCHANGED <<isKeyOwned_store, waitingclients_store>>

\* mutation: the writer is answered but the value table keeps the old value
StoreWrite_stale(req) ==
  IF ~Has(store, req.Key)
  THEN /\ storeOut' = [to |-> req.Reply, Value |-> 0, Ok |-> FALSE]
       /\ storePC' = "reply"
       /\ storeReq' = req
       /\ UNCHANGED <<store, isKeyOwned_store, waitingclients_store>>
  ELSE /\ storeOut' = [to |-> req.Reply, Value |-> req.Value, Ok |-> TRUE]
       /\ storePC' = "reply"
       /\ storeReq' = req
       /\ UNCHANGED <<store, isKeyOwned_store, waitingclients_store>>

\* mutation: a Write is accepted only on a key that is marked owned
StoreWrite_ownedOnly(req) ==
  IF ~Has(store, req.Key) \/ ~IsKeyOwned(req.Key)
  THEN /\ storeOut' = [to |-> req.Reply, Value |-> 0, Ok |-> FALSE]
       /\ storePC' = "reply"
       /\ storeReq' = req
       /\ UNCHANGED <<store, isKeyOwned_store, waitingclients_store>>
  ELSE /\ store' = MapSet(store, req.Key, req.Value)
       /\ storeOut' = [to |-> req.Reply, Value |-> req.Value, Ok |-> TRUE]
       /\ storePC' = "reply"
       /\ storeReq' = req
       /\ UNCHANGED <<isKeyOwned_store, waitingclients_store>>

\* case KVWrite, up to the send of the writer's reply
StoreWrite(req) ==
  IF ~Has(store, req.Key)
  THEN /\ storeOut' = [to |-> req.Reply, Value |-> 0, Ok |-> FALSE]
       /\ storePC' = "reply"
       /\ storeReq' = req
       /\ UNCHANGED <<store, isKeyOwned_store, waitingclients_store>>
  ELSE /\ store' = MapSet(store, req.Key, req.Value)
       /\ storeOut' = [to |-> req.Reply, Value |-> req.Value, Ok |-> TRUE]
       /\ storePC' = "reply"
       /\ storeReq' = req
       /\ UNCHANGED <<isKeyOwned_store, waitingclients_store>>

\* mutation: an unknown operation is served as a Read
StoreDefault_asRead(req) == StoreRead(req)

\* default: unknown operation
StoreDefault(req) ==
  /\ storeOut' = [to |-> req.Reply, Value |-> 0, Ok |-> FALSE]
  /\ storePC' = "reply"
  /\ storeReq' = req
  /\ UNCHANGED <<store, isKeyOwned_store, waitingclients_store>>

\* history: a successful Write is processed
WriteAccepted(req) == req.Op = KVWrite /\ Has(store, req.Key)

\* for req := range reqCh: the store takes req from its sender, which goes on to
\* receive on req.Reply, and runs the switch up to the first blocking send
StoreTake(req) ==
  /\ storePC = "recv"
  /\ ~kvReqClosed
  /\ pc' = [pc EXCEPT ![req.Reply] = "recvKV"]
  /\ CASE req.Op = KVRead -> StoreRead(req)
       [] req.Op = KVWrite -> StoreWrite(req)
       [] OTHER -> StoreDefault(req)
  /\ IF WriteAccepted(req)
     THEN /\ lastPut' = MapSet(lastPut, req.Key, req.Value)
          /\ grants' = [grants EXCEPT ![req.Key] = 0]
     ELSE UNCHANGED <<lastPut, grants>>
  /\ UNCHANGED <<kvResp, clientVars, mainVars>>

\* a rendezvous with client r blocked in kvReqCh <- kvReq
StoreRecv(r) ==
  /\ pc[r] = "sendKV"
  /\ StoreTake(kvReq[r])
  /\ UNCHANGED kvReq

\* mutation: the hand-off to the waiter leaves the key marked unowned
StoreRelease_unowned(req) ==
  IF Has(waitingclients_store, req.Key)
  THEN LET waiting_guy == waitingclients_store[req.Key]
       IN /\ isKeyOwned_store' = MapSet(isKeyOwned_store, req.Key, FALSE)
          /\ store' = WithDefault(store, waiting_guy.Key)
          /\ storeOut' = [to |-> waiting_guy.Reply,
                          Value |-> ValueOf(store, waiting_guy.Key), Ok |-> TRUE]
          /\ storePC' = "grant"
          /\ UNCHANGED <<storeReq, waitingclients_store>>
  ELSE /\ isKeyOwned_store' = MapSet(isKeyOwned_store, req.Key, FALSE)
       /\ waitingclients_store' = MapDel(waitingclients_store, req.Key)
       /\ storePC' = "recv"
       /\ storeReq' = NoReq
       /\ storeOut' = NoOut
       /\ UNCHANGED store

\* after the writer's reply was sent (kvcache.go 101-112): release, then hand
\* the key to the recorded waiter if there is one
StoreRelease(req) ==
  IF Has(waitingclients_store, req.Key)
  THEN LET waiting_guy == waitingclients_store[req.Key]
           owned == MapSet(MapSet(isKeyOwned_store, req.Key, FALSE), waiting_guy.Key, TRUE)
       IN /\ isKeyOwned_store' = owned
          /\ store' = WithDefault(store, waiting_guy.Key)
          /\ storeOut' = [to |-> waiting_guy.Reply,
                          Value |-> ValueOf(store, waiting_guy.Key), Ok |-> TRUE]
          /\ storePC' = "grant"
          /\ UNCHANGED <<storeReq, waitingclients_store>>
  ELSE /\ isKeyOwned_store' = MapSet(isKeyOwned_store, req.Key, FALSE)
       /\ waitingclients_store' = MapDel(waitingclients_store, req.Key)
       /\ storePC' = "recv"
       /\ storeReq' = NoReq
       /\ storeOut' = NoOut
       /\ UNCHANGED store

\* req.Reply <- KVReply{...}: a rendezvous with the requester blocked in <-kvReplyCh,
\* and the rest of the loop body up to the next blocking operation
StoreReply ==
  /\ storePC = "reply"
  /\ pc[storeOut.to] = "recvKV"
  /\ kvResp' = [kvResp EXCEPT ![storeOut.to] = KVReply(storeOut.Value, storeOut.Ok)]
  /\ pc' = [pc EXCEPT ![storeOut.to] = "handle"]
  /\ IF storeReq.Op = KVWrite /\ storeOut.Ok
     THEN StoreRelease(storeReq)
     ELSE /\ storePC' = "recv"
          /\ storeReq' = NoReq
          /\ storeOut' = NoOut
          /\ UNCHANGED <<store, isKeyOwned_store, waitingclients_store>>
  /\ IF storeReq.Op = KVRead /\ storeOut.Ok
     THEN grants' = [grants EXCEPT ![storeReq.Key] = Bump(@)]
     ELSE UNCHANGED grants
  /\ kvReq' = [kvReq EXCEPT ![storeOut.to] = NoReq]
  /\ UNCHANGED <<lastPut, clientVars, mainVars>>

\* mutation: the waiter granted the key stays recorded as the waiter
StoreGrant_keep ==
  /\ storePC = "grant"
  /\ pc[storeOut.to] = "recvKV"
  /\ kvResp' = [kvResp EXCEPT ![storeOut.to] = KVReply(storeOut.Value, storeOut.Ok)]
  /\ pc' = [pc EXCEPT ![storeOut.to] = "handle"]
  /\ storePC' = "recv"
  /\ storeReq' = NoReq
  /\ storeOut' = NoOut
  /\ grants' = [grants EXCEPT ![storeReq.Key] = Bump(@)]
  /\ kvReq' = [kvReq EXCEPT ![storeOut.to] = NoReq]
  /\ UNCHANGED <<store, isKeyOwned_store, waitingclients_store, lastPut, clientVars, mainVars>>

\* waiting_guy.Reply <- KVReply{...}; delete(waitingclients_store, req.Key)
StoreGrant ==
  /\ storePC = "grant"
  /\ pc[storeOut.to] = "recvKV"
  /\ kvResp' = [kvResp EXCEPT ![storeOut.to] = KVReply(storeOut.Value, storeOut.Ok)]
  /\ pc' = [pc EXCEPT ![storeOut.to] = "handle"]
  /\ waitingclients_store' = MapDel(waitingclients_store, storeReq.Key)
  /\ storePC' = "recv"
  /\ storeReq' = NoReq
  /\ storeOut' = NoOut
  /\ grants' = [grants EXCEPT ![storeReq.Key] = Bump(@)]
  /\ kvReq' = [kvReq EXCEPT ![storeOut.to] = NoReq]
  /\ UNCHANGED <<store, isKeyOwned_store, lastPut, clientVars, mainVars>>

\* the range loop ends when reqCh is closed
StoreExit ==
  /\ storePC = "recv"
  /\ kvReqClosed
  /\ storePC' = "done"
  /\ UNCHANGED <<store, isKeyOwned_store, waitingclients_store, storeReq, storeOut,
                 grants, lastPut, portVars, clientVars, mainVars>>

\* ======================= KVClient (kvcache.go 128-192) =====================

ErrRead == "kv read failed"
ErrNotCached == "key not in local cache"
ErrWrite == "kv write failed (key missing in store)"
ErrUnknown == "unknown action"

\* mutation: the cache is not consulted, every Get goes to the store
ClientOnGet_miss(c, act) ==
  /\ kvReq' = [kvReq EXCEPT ![c] = KVRequest(KVRead, act.Key, 0, c)]
  /\ pc' = [pc EXCEPT ![c] = "sendKV"]
  /\ UNCHANGED <<cache, clientReply>>

\* case ClientGet, from the receipt of act to the first blocking operation
ClientOnGet(c, act) ==
  IF Has(cache[c], act.Key)
  THEN /\ clientReply' = [clientReply EXCEPT ![c] = ClientReply(cache[c][act.Key], TRUE, TRUE, "")]
       /\ pc' = [pc EXCEPT ![c] = "reply"]
       /\ UNCHANGED <<cache, kvReq>>
  ELSE /\ kvReq' = [kvReq EXCEPT ![c] = KVRequest(KVRead, act.Key, 0, c)]
       /\ pc' = [pc EXCEPT ![c] = "sendKV"]
       /\ UNCHANGED <<cache, clientReply>>

\* mutation: a Put is sent to the store whether or not the key is cached
ClientOnPut_blind(c, act) ==
  /\ cache' = [cache EXCEPT ![c] = MapSet(@, act.Key, act.Value)]
  /\ kvReq' = [kvReq EXCEPT ![c] = KVRequest(KVWrite, act.Key, act.Value, c)]
  /\ pc' = [pc EXCEPT ![c] = "sendKV"]
  /\ UNCHANGED clientReply

\* mutation: a Put sends the Write and leaves the cached value as it was
ClientOnPut_late(c, act) ==
  IF ~Has(cache[c], act.Key)
  THEN /\ clientReply' = [clientReply EXCEPT ![c] = ClientReply(0, FALSE, FALSE, ErrNotCached)]
       /\ pc' = [pc EXCEPT ![c] = "reply"]
       /\ UNCHANGED <<cache, kvReq>>
  ELSE /\ kvReq' = [kvReq EXCEPT ![c] = KVRequest(KVWrite, act.Key, act.Value, c)]
       /\ pc' = [pc EXCEPT ![c] = "sendKV"]
       /\ UNCHANGED <<cache, clientReply>>

\* case ClientPut, from the receipt of act to the first blocking operation
ClientOnPut(c, act) ==
  IF ~Has(cache[c], act.Key)
  THEN /\ clientReply' = [clientReply EXCEPT ![c] = ClientReply(0, FALSE, FALSE, ErrNotCached)]
       /\ pc' = [pc EXCEPT ![c] = "reply"]
       /\ UNCHANGED <<cache, kvReq>>
  ELSE /\ cache' = [cache EXCEPT ![c] = MapSet(@, act.Key, act.Value)]
       /\ kvReq' = [kvReq EXCEPT ![c] = KVRequest(KVWrite, act.Key, act.Value, c)]
       /\ pc' = [pc EXCEPT ![c] = "sendKV"]
       /\ UNCHANGED clientReply

\* default: unknown action type
ClientOnDefault(c, act) ==
  /\ clientReply' = [clientReply EXCEPT ![c] = ClientReply(0, FALSE, FALSE, ErrUnknown)]
  /\ pc' = [pc EXCEPT ![c] = "reply"]
  /\ UNCHANGED <<cache, kvReq>>

\* mutation: a client takes its next action while its request is outstanding
ClientTake_reentrant(c, act) ==
  /\ pc[c] \in {"idle", "recvKV"}
  /\ ~actionsClosed[c]
  /\ clientAct' = [clientAct EXCEPT ![c] = act]
  /\ released' = [released EXCEPT ![c] = ""]
  /\ CASE act.Type = ClientGet -> ClientOnGet(c, act)
       [] act.Type = ClientPut -> ClientOnPut(c, act)
       [] OTHER -> ClientOnDefault(c, act)
  /\ UNCHANGED <<kvResp, storeVars>>

\* for act := range actionsCh: client c takes act from its caller
ClientTake(c, act) ==
  /\ pc[c] = "idle"
  /\ ~actionsClosed[c]
  /\ clientAct' = [clientAct EXCEPT ![c] = act]
  /\ released' = [released EXCEPT ![c] = ""]
  /\ CASE act.Type = ClientGet -> ClientOnGet(c, act)
       [] act.Type = ClientPut -> ClientOnPut(c, act)
       [] OTHER -> ClientOnDefault(c, act)
  /\ UNCHANGED <<kvResp, storeVars>>

\* mutation: a granted Get caches 0 instead of the value the store sent
ClientAfterRead_zero(c) ==
  IF kvResp[c].Ok
  THEN /\ cache' = [cache EXCEPT ![c] = MapSet(@, clientAct[c].Key, 0)]
       /\ clientReply' = [clientReply EXCEPT ![c] = ClientReply(kvResp[c].Value, FALSE, TRUE, "")]
  ELSE /\ clientReply' = [clientReply EXCEPT ![c] = ClientReply(0, FALSE, FALSE, ErrRead)]
       /\ UNCHANGED cache

\* after kvResp := <-kvReplyCh of a Get (kvcache.go 149-157)
ClientAfterRead(c) ==
  IF kvResp[c].Ok
  THEN /\ cache' = [cache EXCEPT ![c] = MapSet(@, clientAct[c].Key, kvResp[c].Value)]
       /\ clientReply' = [clientReply EXCEPT ![c] = ClientReply(kvResp[c].Value, FALSE, TRUE, "")]
  ELSE /\ clientReply' = [clientReply EXCEPT ![c] = ClientReply(0, FALSE, FALSE, ErrRead)]
       /\ UNCHANGED cache

\* mutation: a successful Put leaves the key in the cache
ClientAfterWrite_keep(c) ==
  IF kvResp[c].Ok
  THEN /\ clientReply' = [clientReply EXCEPT ![c] = ClientReply(0, TRUE, TRUE, "")]
       /\ UNCHANGED cache
  ELSE /\ clientReply' = [clientReply EXCEPT ![c] = ClientReply(0, FALSE, FALSE, ErrWrite)]
       /\ UNCHANGED cache

\* after kvResp := <-kvReplyCh of a Put (kvcache.go 178-186)
ClientAfterWrite(c) ==
  IF kvResp[c].Ok
  THEN /\ cache' = [cache EXCEPT ![c] = MapDel(@, clientAct[c].Key)]
       /\ clientReply' = [clientReply EXCEPT ![c] = ClientReply(0, TRUE, TRUE, "")]
  ELSE /\ clientReply' = [clientReply EXCEPT ![c] = ClientReply(0, FALSE, FALSE, ErrWrite)]
       /\ UNCHANGED cache

\* the client's code between the receipt of the store's reply and act.Reply <- ...
ClientHandle(c) ==
  /\ pc[c] = "handle"
  /\ clientAct[c].Type \in {ClientGet, ClientPut}
  /\ IF clientAct[c].Type = ClientGet THEN ClientAfterRead(c) ELSE ClientAfterWrite(c)
  /\ released' = [released EXCEPT ![c] =
                    IF clientAct[c].Type = ClientPut /\ kvResp[c].Ok
                    THEN clientAct[c].Key ELSE ""]
  /\ pc' = [pc EXCEPT ![c] = "reply"]
  /\ kvResp' = [kvResp EXCEPT ![c] = NoKVReply]
  /\ UNCHANGED kvReq
  /\ UNCHANGED <<clientAct, storeVars, mainVars>>

\* act.Reply <- ClientReply{...}: the value clientReply[c] passes to whoever
\* receives on act.Reply, and the loop returns to range actionsCh
ClientSend(c) ==
  /\ pc[c] = "reply"
  /\ clientReply' = [clientReply EXCEPT ![c] = NoReply]
  /\ clientAct' = [clientAct EXCEPT ![c] = NoAct]
  /\ pc' = [pc EXCEPT ![c] = "idle"]
  /\ UNCHANGED <<cache, released, kvReq, kvResp, storeVars>>

\* mutation: a client whose channel is closed ends although it waits for the store
ClientExit_blocked(c) ==
  /\ pc[c] \in {"idle", "recvKV"}
  /\ actionsClosed[c]
  /\ pc' = [pc EXCEPT ![c] = "done"]
  /\ UNCHANGED <<kvReq, kvResp, clientVars, storeVars, mainVars>>

\* the range loop ends when actionsCh is closed
ClientExit(c) ==
  /\ pc[c] = "idle"
  /\ actionsClosed[c]
  /\ pc' = [pc EXCEPT ![c] = "done"]
  /\ UNCHANGED <<kvReq, kvResp, clientVars, storeVars, mainVars>>

\* ----- callers of the clients: any caller, one action at a time per client -----
Actions ==
  [Type : {ClientPut}, Key : Keys, Value : Values, Reply : {"do"}]
    \cup [Type : {ClientGet, "bogus"}, Key : Keys, Value : {0}, Reply : {"do"}]

Requests(r) ==
  [Op : {KVWrite}, Key : Keys, Value : Values, Reply : {r}]
    \cup [Op : {KVRead}, Key : Keys, Value : {0}, Reply : {r}]
    \cup [Op : {"bogus"}, Key : {"alpha"}, Value : {0}, Reply : {r}]

Call(c) == \E act \in Actions : ClientTake(c, act) /\ UNCHANGED mainVars

\* the caller is blocked receiving on act.Reply
Return(c) == ClientSend(c) /\ UNCHANGED mainVars

\* ----- the system: KVStore and NClients KVClients -----
Next ==
  /\ UNCHANGED gooseVars
  /\ \/ \E c \in Clients : Call(c)
     \/ \E c \in Clients : StoreRecv(c)
     \/ StoreReply
     \/ StoreGrant
     \/ \E c \in Clients : ClientHandle(c)
     \/ \E c \in Clients : Return(c)

Spec == Init /\ [][Next]_vars

\* ----- KVStore alone, served to NRequesters goroutines that each send any
\* KVRequest on reqCh and then receive on its Reply channel -----
Request(r) ==
  /\ pc[r] = "idle"
  /\ \E req \in Requests(r) : StoreTake(req) /\ kvReq' = [kvReq EXCEPT ![r] = req]

Received(r) ==
  /\ pc[r] = "handle"
  /\ pc' = [pc EXCEPT ![r] = "idle"]
  /\ kvResp' = [kvResp EXCEPT ![r] = NoKVReply]
  /\ UNCHANGED <<kvReq, storeVars, clientVars, mainVars>>

NextStore ==
  /\ UNCHANGED gooseVars
  /\ \/ \E r \in Requesters : Request(r)
     \/ StoreReply
     \/ StoreGrant
     \/ \E r \in Requesters : Received(r)

SpecStore == Init /\ [][NextStore]_vars

\* ======================= the demonstration (part_002 main) =================

\* the calls of main, in order: do(...) is synchronous, async(...) only sends
Script == <<
  [client |-> "client1", act |-> ClientAction(ClientGet, "alpha", 0, "do")],
  [client |-> "client1", act |-> ClientAction(ClientPut, "alpha", args[1], "do")],
  [client |-> "client2", act |-> ClientAction(ClientGet, "alpha", 0, "do")],
  [client |-> "client1", act |-> ClientAction(ClientGet, "alpha", 0, "pending")],
  [client |-> "client2", act |-> ClientAction(ClientGet, "alpha", 0, "do")],
  [client |-> "client2", act |-> ClientAction(ClientPut, "alpha", args[2], "do")] >>
HarvestStep == Len(Script) + 1
CloseSteps == <<"client1", "client2", "kvReqCh">>
WaitStep == HarvestStep + Len(CloseSteps) + 1
DemoClients == {"client1", "client2"}
\* the command lines tried: two different integers among the seeds and 0
DemoArgs == {a \in (Values \cup {0}) \X (Values \cup {0}) : a[1] # a[2]}

\* clientCh <- act, in do and in async
MainCall ==
  /\ mainPC.phase = "send"
  /\ mainPC.i <= Len(Script)
  /\ ClientTake(Script[mainPC.i].client, Script[mainPC.i].act)
  /\ mainPC' = IF Script[mainPC.i].act.Reply = "do"
               THEN [mainPC EXCEPT !.phase = "wait"]
               ELSE [mainPC EXCEPT !.i = @ + 1]
  /\ UNCHANGED <<mainLog, pendingCh, args, actionsClosed, kvReqClosed>>

\* resp := <-act.Reply in do: a rendezvous with the client's send
MainDo ==
  /\ mainPC.phase = "wait"
  /\ clientAct[Script[mainPC.i].client].Reply = "do"
  /\ ClientSend(Script[mainPC.i].client)
  /\ mainLog' = Append(mainLog, clientReply[Script[mainPC.i].client])
  /\ mainPC' = [i |-> mainPC.i + 1, phase |-> "send"]
  /\ UNCHANGED <<pendingCh, args, actionsClosed, kvReqClosed>>

\* the client's send on the buffered channel pending.Reply (capacity 2)
PendingSend(c) ==
  /\ clientAct[c].Reply = "pending"
  /\ Len(pendingCh) < 2
  /\ ClientSend(c)
  /\ pendingCh' = Append(pendingCh, clientReply[c])
  /\ UNCHANGED <<mainPC, mainLog, args, actionsClosed, kvReqClosed>>

\* resp = <-pending.Reply
MainHarvest ==
  /\ mainPC = [i |-> HarvestStep, phase |-> "send"]
  /\ pendingCh # << >>
  /\ mainLog' = Append(mainLog, Head(pendingCh))
  /\ pendingCh' = Tail(pendingCh)
  /\ mainPC' = [mainPC EXCEPT !.i = @ + 1]
  /\ UNCHANGED <<args, actionsClosed, kvReqClosed, portVars, clientVars, storeVars>>

\* close(client1Ch); close(client2Ch); close(kvReqCh)
MainClose ==
  /\ mainPC.phase = "send"
  /\ mainPC.i > HarvestStep
  /\ mainPC.i < WaitStep
  /\ LET ch == CloseSteps[mainPC.i - HarvestStep]
     IN IF ch = "kvReqCh"
        THEN kvReqClosed' = TRUE /\ UNCHANGED actionsClosed
        ELSE actionsClosed' = [actionsClosed EXCEPT ![ch] = TRUE] /\ UNCHANGED kvReqClosed
  /\ mainPC' = [mainPC EXCEPT !.i = @ + 1]
  /\ UNCHANGED <<mainLog, pendingCh, args, portVars, clientVars, storeVars>>

\* wg.Wait()
MainWait ==
  /\ mainPC = [i |-> WaitStep, phase |-> "send"]
  /\ storePC = "done"
  /\ \A c \in DemoClients : pc[c] = "done"
  /\ mainPC' = [i |-> WaitStep, phase |-> "done"]
  /\ UNCHANGED <<mainLog, pendingCh, args, actionsClosed, kvReqClosed, portVars,
                 clientVars, storeVars>>

NextDemo ==
  /\ UNCHANGED gooseVars
  /\ \/ MainCall
     \/ MainDo
     \/ MainHarvest
     \/ MainClose
     \/ MainWait
     \/ \E c \in DemoClients : StoreRecv(c)
     \/ StoreReply
     \/ StoreGrant
     \/ StoreExit
     \/ \E c \in DemoClients : ClientHandle(c)
     \/ \E c \in DemoClients : PendingSend(c)
     \/ \E c \in DemoClients : ClientExit(c)

InitDemo == InitProgram /\ MainStart /\ args \in DemoArgs

SpecDemo == InitDemo /\ [][NextDemo]_vars

\* ----- KVStore, the two KVClients of main under any caller, and the other
\* requesters, which send on the same reqCh requests with an operation that is
\* neither read nor write -----
Directs == Requesters \ DemoClients

RequestUnknown(r) ==
  /\ pc[r] = "idle"
  /\ \E req \in {q \in Requests(r) : q.Op \notin {KVRead, KVWrite}} :
       StoreTake(req) /\ kvReq' = [kvReq EXCEPT ![r] = req]

NextOpen ==
  /\ UNCHANGED gooseVars
  /\ \/ \E c \in DemoClients : Call(c)
     \/ \E c \in DemoClients : StoreRecv(c)
     \/ StoreReply
     \/ StoreGrant
     \/ \E c \in DemoClients : ClientHandle(c)
     \/ \E c \in DemoClients : Return(c)
     \/ \E r \in Directs : RequestUnknown(r)
     \/ \E r \in Directs : Received(r)

SpecOpen == Init /\ [][NextOpen]_vars

\* ----- shutdown: the demonstration, or KVStore and the two KVClients under a
\* driver that submits any action and closes any channel at any time -----
AnyDriver == mainPC.phase = "off"

\* close(clientNCh) by the driver
CloseActions(c) ==
  /\ AnyDriver
  /\ ~actionsClosed[c]
  /\ actionsClosed' = [actionsClosed EXCEPT ![c] = TRUE]
  /\ UNCHANGED <<mainPC, mainLog, pendingCh, args, kvReqClosed, portVars, clientVars, storeVars>>

\* close(kvReqCh) by the driver
CloseKV ==
  /\ AnyDriver
  /\ ~kvReqClosed
  /\ kvReqClosed' = TRUE
  /\ UNCHANGED <<mainPC, mainLog, pendingCh, args, actionsClosed, portVars, clientVars, storeVars>>

\* kvReqCh <- kvReq on a closed channel panics, which ends the program
ClientPanic(c) ==
  /\ pc[c] = "sendKV"
  /\ kvReqClosed
  /\ pc' = [pc EXCEPT ![c] = "panic"]
  /\ UNCHANGED <<kvReq, kvResp, clientVars, storeVars, mainVars>>

Running == \A p \in Procs : pc[p] # "panic"

NextShutdown ==
  /\ UNCHANGED gooseVars
  /\ Running
  /\ \/ NextDemo
     \/ \E c \in DemoClients : AnyDriver /\ Call(c)
     \/ \E c \in DemoClients : AnyDriver /\ Return(c)
     \/ \E c \in DemoClients : CloseActions(c)
     \/ CloseKV
     \/ \E c \in DemoClients : ClientPanic(c)

InitShutdown ==
  \/ InitDemo
  \/ InitProgram /\ mainPC = [i |-> 0, phase |-> "off"] /\ args = <<val1, val2>>

SpecShutdown == InitShutdown /\ [][NextShutdown]_vars

\* ----- KVClient alone: the two KVClients of main under any caller, with
\* whatever serves kvReqCh taking each request and answering it with any KVReply -----
PeerReplies == {KVReply(v, TRUE) : v \in Values \cup {0}} \cup {KVReply(0, FALSE)}

\* kvReqCh <- kvReq completes
PeerTake(c) ==
  /\ pc[c] = "sendKV"
  /\ pc' = [pc EXCEPT ![c] = "recvKV"]
  /\ UNCHANGED <<kvReq, kvResp, clientVars, storeVars, mainVars>>

\* kvResp := <-kvReplyCh completes
PeerReply(c) ==
  /\ pc[c] = "recvKV"
  /\ \E rep \in PeerReplies : kvResp' = [kvResp EXCEPT ![c] = rep]
  /\ pc' = [pc EXCEPT ![c] = "handle"]
  /\ kvReq' = [kvReq EXCEPT ![c] = NoReq]
  /\ UNCHANGED <<clientVars, storeVars, mainVars>>

NextClient ==
  /\ UNCHANGED gooseVars
  /\ \/ \E c \in DemoClients : Call(c)
     \/ \E c \in DemoClients : PeerTake(c)
     \/ \E c \in DemoClients : PeerReply(c)
     \/ \E c \in DemoClients : ClientHandle(c)
     \/ \E c \in DemoClients : Return(c)

SpecClient == Init /\ [][NextClient]_vars

\* ======================= the workload discipline (README.md 42-53) ==========
\* KVStore and the two KVClients of main, driven by any well-behaved workload

\* the clients that contend for key k: they hold k or have a Get on k in progress
Contending(k) ==
  {c \in DemoClients :
     \/ Has(cache[c], k)
     \/ (pc[c] # "idle" /\ clientAct[c].Type = ClientGet /\ clientAct[c].Key = k)}

\* main issues a Get on k to client c: at most two clients contend for k at a time
WorkloadGet(c, k) ==
  /\ Cardinality(Contending(k) \cup {c}) <= 2
  /\ ClientTake(c, ClientAction(ClientGet, k, 0, "do"))
  /\ UNCHANGED mainVars

\* main issues the Put that matches a Get of client c on k
WorkloadPut(c, k) ==
  /\ Has(cache[c], k)
  /\ \E v \in Values : ClientTake(c, ClientAction(ClientPut, k, v, "do"))
  /\ UNCHANGED mainVars

NextWorkload ==
  /\ UNCHANGED gooseVars
  /\ \/ \E c \in DemoClients, k \in Keys : WorkloadGet(c, k)
     \/ \E c \in DemoClients, k \in Keys : WorkloadPut(c, k)
     \/ \E c \in DemoClients : StoreRecv(c)
     \/ StoreReply
     \/ StoreGrant
     \/ \E c \in DemoClients : ClientHandle(c)
     \/ \E c \in DemoClients : Return(c)

\* every goroutine that can run does run; a sender blocked on kvReqCh is served
\* by one of the store's receives; main issues the matching Put of every key a
\* client holds whenever that client takes actions again and again
FairWorkload ==
  /\ \A c \in DemoClients : SF_vars(StoreRecv(c) /\ UNCHANGED gooseVars)
  /\ WF_vars(StoreReply /\ UNCHANGED gooseVars)
  /\ WF_vars(StoreGrant /\ UNCHANGED gooseVars)
  /\ \A c \in DemoClients : WF_vars(ClientHandle(c) /\ UNCHANGED gooseVars)
  /\ \A c \in DemoClients : WF_vars(Return(c) /\ UNCHANGED gooseVars)
  /\ \A c \in DemoClients, k \in Keys : SF_vars(WorkloadPut(c, k) /\ UNCHANGED gooseVars)

SpecWorkload == Init /\ [][NextWorkload]_vars /\ FairWorkload

\* ======================= goose: ReqHandler, serve, Loadgen =================
\* (goose.go, part_000, part_001, README.md 14-149). A request is named by its
\* ClientID; the work and wait demands are time only and are one step of serve.

ReqIds == 0 .. (NReq - 1)

\* mutation: the capacity of the semaphore is one more than maxConcurrent
Capacity_plusOne == IF maxConcurrent <= 0 THEN 2 ELSE maxConcurrent + 1

\* if maxConcurrent <= 0 { maxConcurrent = 1 }; make(chan Permission, maxConcurrent)
Capacity == IF maxConcurrent <= 0 THEN 1 ELSE maxConcurrent

\* for req := range reqCh: the handler takes the next request
HandlerRecv ==
  /\ handlerPC = "range"
  /\ reqCh # << >>
  /\ handlerReq' = Head(reqCh)
  /\ reqCh' = Tail(reqCh)
  /\ handlerPC' = "acquire"
  /\ UNCHANGED <<reqChClosed, repCh, maxConcurrent, permissions, servePC, loadgenVars, statVars>>

\* permissions <- perm, which blocks while the channel is full; go serve(req, permissions)
HandlerStart ==
  /\ handlerPC = "acquire"
  /\ permissions < Capacity
  /\ permissions' = permissions + 1
  /\ servePC' = [servePC EXCEPT ![handlerReq] = "work"]
  /\ handlerReq' = -1
  /\ handlerPC' = "range"
  /\ UNCHANGED <<reqCh, reqChClosed, repCh, maxConcurrent, loadgenVars, statVars>>

\* the range loop ends when reqCh is closed and empty
HandlerExit ==
  /\ handlerPC = "range"
  /\ reqCh = << >>
  /\ reqChClosed
  /\ handlerPC' = "done"
  /\ UNCHANGED <<reqCh, reqChClosed, repCh, maxConcurrent, permissions, handlerReq,
                 servePC, loadgenVars, statVars>>

\* burnCPU(r.WorkDemand); time.Sleep(r.WaitDemand)
ServeWork(i) ==
  /\ servePC[i] = "work"
  /\ servePC' = [servePC EXCEPT ![i] = "reply"]
  /\ UNCHANGED <<reqCh, reqChClosed, repCh, maxConcurrent, permissions, handlerPC,
                 handlerReq, loadgenVars, statVars>>

\* r.ReplyCh <- r, which blocks while repCh is full
ServeReply(i) ==
  /\ servePC[i] = "reply"
  /\ Len(repCh) < ChanCap
  /\ repCh' = Append(repCh, i)
  /\ servePC' = [servePC EXCEPT ![i] = "bye"]
  /\ UNCHANGED <<reqCh, reqChClosed, maxConcurrent, permissions, handlerPC, handlerReq,
                 loadgenVars, statVars>>

\* defer byebye(permissions): <-permissions
ServeBye(i) ==
  /\ servePC[i] = "bye"
  /\ permissions' = permissions - 1
  /\ servePC' = [servePC EXCEPT ![i] = "done"]
  /\ UNCHANGED <<reqCh, reqChClosed, repCh, maxConcurrent, handlerPC, handlerReq,
                 loadgenVars, statVars>>

\* ----- statistics (part_000) -----
ResetStats ==
  /\ sendTimes' = {}
  /\ attempts' = 0
  /\ sent' = 0
  /\ skipped' = 0
  /\ received' = 0

\* mutation: a skipped attempt is counted as sent as well
SendUpcall_both(id, skippedFlag) ==
  /\ attempts' = attempts + 1
  /\ IF skippedFlag
     THEN skipped' = skipped + 1 /\ sent' = sent + 1 /\ UNCHANGED sendTimes
     ELSE sent' = sent + 1 /\ sendTimes' = sendTimes \cup {id} /\ UNCHANGED skipped
  /\ UNCHANGED received

SendUpcall(id, skippedFlag) ==
  /\ attempts' = attempts + 1
  /\ IF skippedFlag
     THEN skipped' = skipped + 1 /\ UNCHANGED <<sent, sendTimes>>
     ELSE sent' = sent + 1 /\ sendTimes' = sendTimes \cup {id} /\ UNCHANGED skipped
  /\ UNCHANGED received

ReceiveUpcall(id) ==
  IF id \notin sendTimes
  THEN UNCHANGED statVars
  ELSE /\ received' = received + 1
       /\ sendTimes' = sendTimes \ {id}
       /\ UNCHANGED <<attempts, sent, skipped>>

\* ----- Loadgen (README.md 38-149) -----
\* the termination condition at the top of the loop
LoadgenFinished == sentAttempts >= loadN /\ sendTimes = {}

\* if n <= 0 { return }; ResetStats()
LoadgenStart ==
  /\ loadgenPC = "start"
  /\ IF loadN <= 0
     THEN loadgenPC' = "returned" /\ UNCHANGED statVars
     ELSE loadgenPC' = "loop" /\ ResetStats
  /\ UNCHANGED <<reqCh, reqChClosed, repCh, handlerVars, loadN, sentAttempts,
                 nextClientID, wasSent>>

\* case <-timerC (armed while sentAttempts < n): the non-blocking send of the
\* next request
LoadgenArrival ==
  /\ loadgenPC = "loop"
  /\ ~LoadgenFinished
  /\ sentAttempts < loadN
  /\ sentAttempts' = sentAttempts + 1
  /\ nextClientID' = nextClientID + 1
  /\ IF Len(reqCh) < ChanCap
     THEN reqCh' = Append(reqCh, nextClientID) /\ wasSent' = TRUE
     ELSE UNCHANGED reqCh /\ wasSent' = FALSE
  /\ loadgenPC' = "upcall"
  /\ UNCHANGED <<reqChClosed, repCh, handlerVars, loadN, statVars>>

\* SendUpcall(req, false) after the send, SendUpcall(req, true) in default
LoadgenUpcall ==
  /\ loadgenPC = "upcall"
  /\ SendUpcall(nextClientID - 1, ~wasSent)
  /\ loadgenPC' = "loop"
  /\ UNCHANGED <<reqCh, reqChClosed, repCh, handlerVars, loadN, sentAttempts,
                 nextClientID, wasSent>>

\* case rep, ok := <-repCh: ReceiveUpcall(rep)
LoadgenReceive ==
  /\ loadgenPC = "loop"
  /\ ~LoadgenFinished
  /\ repCh # << >>
  /\ ReceiveUpcall(Head(repCh))
  /\ repCh' = Tail(repCh)
  /\ UNCHANGED <<reqCh, reqChClosed, handlerVars, loadgenVars>>

\* break, and Loadgen returns
LoadgenReturn ==
  /\ loadgenPC = "loop"
  /\ LoadgenFinished
  /\ loadgenPC' = "returned"
  /\ UNCHANGED <<reqCh, reqChClosed, repCh, handlerVars, loadN, sentAttempts,
                 nextClientID, wasSent, statVars>>

\* main after Loadgen: GetStats and the report, then close(reqCh)
GooseMainClose ==
  /\ loadgenPC = "returned"
  /\ reqChClosed' = TRUE
  /\ loadgenPC' = "closed"
  /\ UNCHANGED <<reqCh, repCh, handlerVars, loadN, sentAttempts, nextClientID,
                 wasSent, statVars>>

NextGoose ==
  /\ UNCHANGED kvVars
  /\ \/ HandlerRecv
     \/ HandlerStart
     \/ HandlerExit
     \/ \E i \in ReqIds : ServeWork(i)
     \/ \E i \in ReqIds : ServeReply(i)
     \/ \E i \in ReqIds : ServeBye(i)
     \/ LoadgenStart
     \/ LoadgenArrival
     \/ LoadgenUpcall
     \/ LoadgenReceive
     \/ LoadgenReturn
     \/ GooseMainClose

\* the command line gives maxConcurrent; the number of requests is main's N
InitRun ==
  /\ InitKV
  /\ MainStart
  /\ args = <<val1, val2>>
  /\ InitGoose
  /\ maxConcurrent \in 0 .. MaxConc
  /\ loadN \in 0 .. NReq

SpecGoose == InitRun /\ [][NextGoose]_vars

\* ======================= properties =======================================

\* C1. Mutual exclusion at the store: for every key, no two Reads are granted
\* (answered with Ok = true) without a successful Write on that key processed
\* between the two grants. grants[k] counts the grants on k since the last
\* successful Write on k.
C1_MutualExclusion == \A k \in Keys : grants[k] <= 1

\* C1 witness: a Read on k was granted after a successful Write on k, itself
\* after an earlier grant (a Write succeeds only on a key a Read created).
C1_Witness ==
  \E k \in Keys : grants[k] = 1 /\ Has(lastPut, k) /\ IsKeyOwned(k) /\ storePC = "recv"

\* the value a Get must carry: that of the last Write the store accepted, or 0
Latest(k) == IF Has(lastPut, k) THEN lastPut[k] ELSE 0

\* C2. Coherence: the reply of every successful Get, cache hit or miss, carries
\* the value of the most recent Put to the key that the store completed, or 0
\* when the key was never written; it holds from the moment the client has
\* built the reply until it is delivered.
C2_Coherence ==
  \A c \in Clients :
    (pc[c] = "reply" /\ clientAct[c].Type = ClientGet /\ clientReply[c].Ok)
      => clientReply[c].Value = Latest(clientAct[c].Key)

\* C2 witness: a Get that missed the cache returns a value another client put,
\* and a Get that hits the cache does so while the other client waits for the key.
C2_Witness ==
  \E c, d \in Clients :
    /\ c # d
    /\ pc[c] = "reply" /\ clientAct[c].Type = ClientGet /\ clientReply[c].Hit
    /\ clientReply[c].Value = val2
    /\ Has(lastPut, clientAct[c].Key)
    /\ lastPut[clientAct[c].Key] = val2
    /\ pc[d] = "recvKV" /\ kvReq[d] = KVRequest(KVRead, clientAct[c].Key, 0, d)

\* C3. Release-then-grant value: when the store hands a key to the recorded
\* waiter after a successful Write(K, v), the reply it sends to the waiter is
\* {Value: v, Ok: true}, v being the value of the Write it is processing.
C3_ReleaseThenGrant ==
  storePC = "grant" =>
    /\ storeReq.Op = KVWrite
    /\ Has(waitingclients_store, storeReq.Key)
    /\ storeOut = [to |-> waitingclients_store[storeReq.Key].Reply,
                   Value |-> storeReq.Value, Ok |-> TRUE]

\* C3 witness: the store is about to answer a waiter with a value that differs
\* from the one the key held before the Write (the waiter's owner read val1).
C3_Witness ==
  /\ storePC = "grant"
  /\ storeReq.Value = val2
  /\ \E r \in Requesters : pc[r] = "handle" /\ kvResp[r] = KVReply(val2, TRUE)
  /\ pc[storeOut.to] = "recvKV"

\* what main prints, in order, for the command line args
Expected == <<
  ClientReply(0, FALSE, TRUE, ""),
  ClientReply(0, TRUE, TRUE, ""),
  ClientReply(args[1], FALSE, TRUE, ""),
  ClientReply(args[1], TRUE, TRUE, ""),
  ClientReply(0, TRUE, TRUE, ""),
  ClientReply(args[2], FALSE, TRUE, "") >>

\* C4. The demonstration: in every interleaving the replies main receives are,
\* in order, Get -> 0, Put ok, Get -> val1, Get -> val1 (hit), Put ok, and the
\* pending Get -> val2 and never val1; client1's pending Get is issued while
\* client2 holds alpha.
C4_DemoScenario ==
  /\ \A i \in 1..Len(mainLog) : mainLog[i] = Expected[i]
  /\ \A i \in 1..Len(pendingCh) : pendingCh[i] = Expected[Len(Expected)]
  /\ mainPC.i \in {4, 5} => (Has(cache["client2"], "alpha") /\ IsKeyOwned("alpha"))
  /\ mainPC.i > HarvestStep => Len(mainLog) = Len(Expected)

\* C4 witness: main ran to its end with the arguments 42 and 7 and printed 7
\* for the pending Get.
C4_Witness ==
  /\ mainPC.phase = "done"
  /\ args = <<val1, val2>>
  /\ mainLog[Len(Expected)].Value = val2

\* the store took r's request in this step
Taken(r) == pc[r] # "recvKV" /\ pc'[r] = "recvKV"

\* r's Read was taken by the store and not answered in the step that took it
Deferred(r) ==
  /\ pc[r] = "recvKV"
  /\ kvReq[r].Op = KVRead
  /\ ~(storePC = "reply" /\ storeOut.to = r)

storeTables == <<store, isKeyOwned_store, waitingclients_store>>

\* C5. A Read on an owned key is not answered in the step that processes it:
\* the store records the request as the waiter of the key, leaves the value
\* table and the ownership table as they were and returns to its loop; the
\* requester leaves its receive only by the hand-off of a successful Write on
\* that same key, so without such a Write it stays blocked.
C5_ReadOnOwnedWaits ==
  [][\A r \in Procs :
       /\ (Taken(r) /\ kvReq'[r].Op = KVRead /\ IsKeyOwned(kvReq'[r].Key))
            => /\ Has(waitingclients_store', kvReq'[r].Key)
               /\ waitingclients_store'[kvReq'[r].Key] = kvReq'[r]
               /\ store' = store
               /\ isKeyOwned_store' = isKeyOwned_store
               /\ storePC' = "recv"
               /\ kvResp'[r] = NoKVReply
       /\ (Deferred(r) /\ pc'[r] # "recvKV")
            => /\ storePC = "grant"
               /\ storeReq.Op = KVWrite
               /\ storeReq.Key = kvReq[r].Key
               /\ storeOut.to = r
               /\ kvResp'[r].Ok]_vars

\* C5 witness: r is recorded as the waiter of a key and still blocked while the
\* store is answering the request of another requester on the other key.
C5_Witness ==
  \E r, q \in Requesters :
    /\ r # q
    /\ Deferred(r)
    /\ Has(waitingclients_store, kvReq[r].Key)
    /\ waitingclients_store[kvReq[r].Key].Reply = r
    /\ storePC = "reply"
    /\ storeOut.to = q
    /\ storeReq.Key # kvReq[r].Key

\* C6. A Read on an unowned key is answered in the step that processes it with
\* Ok = true: with 0 when the key is absent from the value table, which then
\* maps the key to 0, and with the recorded value, unchanged, when it is
\* present; the key is owned afterwards.
C6_FirstReadMaterializesZero ==
  [][\A r \in Procs :
       (Taken(r) /\ kvReq'[r].Op = KVRead /\ ~IsKeyOwned(kvReq'[r].Key))
         => LET k == kvReq'[r].Key
            IN /\ storePC' = "reply"
               /\ storeOut' = [to |-> r,
                               Value |-> IF Has(store, k) THEN store[k] ELSE 0,
                               Ok |-> TRUE]
               /\ store' = IF Has(store, k) THEN store ELSE MapSet(store, k, 0)
               /\ Has(isKeyOwned_store', k) /\ isKeyOwned_store'[k]
               /\ waitingclients_store' = waitingclients_store]_vars

\* C6 witness: the store answers a Read on an unowned key with the value an
\* earlier Write gave it, while the other key holds the 0 of its first Read.
C6_Witness ==
  \E k, j \in Keys :
    /\ storePC = "reply"
    /\ storeReq = KVRequest(KVRead, k, 0, storeOut.to)
    /\ storeOut.Value = val1
    /\ storeOut.Ok
    /\ Has(store, j) /\ store[j] = 0 /\ ~Has(lastPut, j)

\* C7. A Write on a key absent from the value table is answered with
\* {Value: 0, Ok: false}; processing it and sending the answer leave the value
\* table, the ownership table and the waiter slots as they were.
C7_WriteFailsOnAbsentKey ==
  [][/\ \A r \in Procs :
          (Taken(r) /\ kvReq'[r].Op = KVWrite /\ ~Has(store, kvReq'[r].Key))
            => /\ storePC' = "reply"
               /\ storeOut' = [to |-> r, Value |-> 0, Ok |-> FALSE]
               /\ storeTables' = storeTables
     /\ (storePC = "reply" /\ storeReq.Op = KVWrite /\ ~storeOut.Ok /\ storePC' # "reply")
          => /\ kvResp'[storeOut.to] = KVReply(0, FALSE)
             /\ storePC' = "recv"
             /\ storeTables' = storeTables]_vars

\* C7 witness: the store is answering a failed Write while its tables hold
\* another key, owned and with a waiter.
C7_Witness ==
  /\ storePC = "reply"
  /\ storeReq.Op = KVWrite
  /\ ~storeOut.Ok
  /\ ~Has(store, storeReq.Key)
  /\ \E j \in Keys : Has(store, j) /\ IsKeyOwned(j) /\ Has(waitingclients_store, j)

\* C8. A Put on a key that is not in the client's cache is answered with
\* Ok = false and Err = "key not in local cache"; no request is built or sent
\* to the store, and the cache and the store are unchanged.
C8_PutRequiresLocalOwnership ==
  [][\A c \in Clients :
       /\ (pc[c] = "idle" /\ pc'[c] # "idle" /\ clientAct'[c].Type = ClientPut
             /\ ~Has(cache[c], clientAct'[c].Key))
            => /\ pc'[c] = "reply"
               /\ clientReply'[c] = ClientReply(0, FALSE, FALSE, ErrNotCached)
               /\ cache' = cache
               /\ kvReq' = kvReq
               /\ storeVars' = storeVars
       /\ (pc[c] = "reply" /\ clientReply[c].Err = ErrNotCached /\ pc'[c] # "reply")
            => /\ pc'[c] = "idle"
               /\ cache' = cache
               /\ kvReq' = kvReq
               /\ storeVars' = storeVars]_vars

\* C8 witness: a client is about to answer "key not in local cache" for a key
\* that another client holds.
C8_Witness ==
  \E c, d \in Clients :
    /\ c # d
    /\ pc[c] = "reply"
    /\ clientAct[c].Type = ClientPut
    /\ clientReply[c] = ClientReply(0, FALSE, FALSE, ErrNotCached)
    /\ Has(cache[d], clientAct[c].Key)

\* C9. A Get on a key that is in the client's cache is answered with
\* {Value: cache[K], Hit: true, Ok: true}; no request is built or sent to the
\* store, and the cache and the store are unchanged.
C9_GetCacheHit ==
  [][\A c \in Clients :
       /\ (pc[c] = "idle" /\ pc'[c] # "idle" /\ clientAct'[c].Type = ClientGet
             /\ Has(cache[c], clientAct'[c].Key))
            => /\ pc'[c] = "reply"
               /\ clientReply'[c] = ClientReply(cache[c][clientAct'[c].Key], TRUE, TRUE, "")
               /\ cache' = cache
               /\ kvReq' = kvReq
               /\ storeVars' = storeVars
       /\ (pc[c] = "reply" /\ clientReply[c].Hit /\ clientAct[c].Type = ClientGet
             /\ pc'[c] # "reply")
            => /\ pc'[c] = "idle"
               /\ cache' = cache
               /\ kvReq' = kvReq
               /\ storeVars' = storeVars]_vars

\* C9 witness: a client is about to answer a Get from its cache with a value
\* that a Put wrote.
C9_Witness ==
  \E c \in Clients :
    /\ pc[c] = "reply"
    /\ clientAct[c].Type = ClientGet
    /\ clientReply[c] = ClientReply(val1, TRUE, TRUE, "")
    /\ Has(cache[c], clientAct[c].Key)

\* C10. A Put(K, v) on a cached key that the store accepts sets the store's
\* value of K to v; on the store's answer the client removes K from its cache
\* and answers {Hit: true, Ok: true}; the next action of that client on K
\* misses the cache: a Get sends a Read to the store, a Put fails with
\* "key not in local cache".
C10_PutReleasesKey ==
  [][\A c \in Clients :
       /\ (pc[c] = "sendKV" /\ pc'[c] = "recvKV" /\ kvReq[c].Op = KVWrite /\ storeOut'.Ok)
            => /\ Has(store', kvReq[c].Key)
               /\ store'[kvReq[c].Key] = kvReq[c].Value
       /\ (pc[c] = "handle" /\ pc'[c] # "handle" /\ clientAct[c].Type = ClientPut
             /\ kvResp[c].Ok)
            => /\ cache'[c] = MapDel(cache[c], clientAct[c].Key)
               /\ Has(cache[c], clientAct[c].Key)
               /\ clientReply'[c] = ClientReply(0, TRUE, TRUE, "")
               /\ pc'[c] = "reply"
       /\ (pc[c] = "idle" /\ released[c] # "" /\ pc'[c] # "idle"
             /\ clientAct'[c].Key = released[c])
            => /\ clientAct'[c].Type = ClientGet
                    => /\ pc'[c] = "sendKV"
                       /\ kvReq'[c] = KVRequest(KVRead, released[c], 0, c)
               /\ clientAct'[c].Type = ClientPut
                    => /\ pc'[c] = "reply"
                       /\ clientReply'[c] = ClientReply(0, FALSE, FALSE, ErrNotCached)]_vars

\* C10 witness: a client has answered a successful Put of val2, the store holds
\* val2 for the key, and the client is ready for its next action.
C10_Witness ==
  \E c \in Clients :
    /\ pc[c] = "idle"
    /\ released[c] # ""
    /\ ~Has(cache[c], released[c])
    /\ Has(store, released[c])
    /\ store[released[c]] = val2

\* the store holds the reply channel of r: it is sending on it, or a recorded
\* waiter names it
HeldBy(r) ==
  \/ storePC \in {"reply", "grant"} /\ storeOut.to = r
  \/ \E k \in Keys : Has(waitingclients_store, k) /\ waitingclients_store[k].Reply = r

\* the store receives, sends or finishes a loop body in this step
StoreStep == <<storePC, storeReq, storeOut>>' # <<storePC, storeReq, storeOut>>

\* C11. Reply count: the store sends at most one reply per request it consumed
\* (it holds a reply channel only while the request is unanswered, a reply goes
\* to an unanswered request and the store then holds the channel no more); a
\* Write, an unknown operation and a Read on an unowned key are answered in the
\* step that consumed them, before the store takes another request; after the
\* reply of a failing request the store is back at its receive with its tables
\* as they were.
C11_ReplyCount ==
  [][\A r \in Procs :
       /\ HeldBy(r)' => (pc'[r] = "recvKV" /\ ~kvResp'[r].Set)
       /\ (kvResp'[r].Set /\ kvResp'[r] # kvResp[r])
            => /\ pc[r] = "recvKV"
               /\ ~kvResp[r].Set
               /\ HeldBy(r)
               /\ ~HeldBy(r)'
       /\ Taken(r) => storePC = "recv"
       /\ (Taken(r) /\ (kvReq'[r].Op # KVRead \/ ~IsKeyOwned(kvReq'[r].Key)))
            => /\ storePC' = "reply"
               /\ storeOut'.to = r
               /\ storeReq' = kvReq'[r]
       /\ (storePC = "reply" /\ storeOut.to = r /\ StoreStep)
            => /\ kvResp'[r] = KVReply(storeOut.Value, storeOut.Ok)
               /\ pc'[r] = "handle"
               /\ ~storeOut.Ok => (storePC' = "recv" /\ storeTables' = storeTables)]_vars

\* C11 witness: a requester holds the reply of its failed request while the
\* store is answering the successful request another requester sent after it.
C11_Witness ==
  \E r, q \in Requesters :
    /\ r # q
    /\ pc[r] = "handle"
    /\ kvResp[r] = KVReply(0, FALSE)
    /\ storePC = "reply"
    /\ storeOut.to = q
    /\ storeOut.Ok
    /\ lastPut = EmptyMap

\* client c is processing an action its caller submitted
Busy(c) == pc[c] # "idle"

\* C12 as stated. Under the workload discipline (at most two clients contend
\* for a key, every Get has its matching Put issued to the same client) every
\* Get and every Put submitted to a client eventually receives its reply.
C12_EveryActionReplied ==
  \A c \in DemoClients : Busy(c) ~> ~Busy(c)

\* no client asks the store for a key while it holds another key
NoNestedGet ==
  \A c \in DemoClients :
    ~(pc[c] \in {"sendKV", "recvKV"} /\ kvReq[c].Op = KVRead /\ cache[c] # EmptyMap)

\* C12, amended. Under the workload discipline and when, in addition, no client
\* is issued a Get on a key it does not hold while it holds another key, every
\* Get and every Put submitted to a client eventually receives its reply.
C12_RepliedWithoutNestedGet ==
  ([]NoNestedGet) => (\A c \in DemoClients : Busy(c) ~> ~Busy(c))

\* C12 witness: a client that held no key and waited for a key receives it by
\* the hand-off of the Put of the other client, which has its reply too.
C12_Witness ==
  \E c, d \in DemoClients :
    /\ c # d
    /\ pc[c] = "handle"
    /\ clientAct[c].Type = ClientGet
    /\ kvResp[c].Ok
    /\ cache[c] = EmptyMap
    /\ pc[d] = "handle"
    /\ clientAct[d] = ClientAction(ClientPut, clientAct[c].Key, kvResp[c].Value, "do")

\* key k is marked owned at the end of the step
OwnedNext(k) == Has(isKeyOwned_store', k) /\ isKeyOwned_store'[k]

\* C13. Atomic hand-off: when the store has answered a successful Write on K
\* and a waiter is recorded for K, it goes on to the waiter's grant with K
\* already marked owned again and takes no request before that grant; the grant
\* is delivered to the waiter and to nobody else, and ends the step with K
\* owned and the waiter slot of K empty. With no waiter the step ends with K
\* unowned.
C13_AtomicHandOff ==
  [][/\ (storePC = "reply" /\ storeReq.Op = KVWrite /\ storeOut.Ok /\ StoreStep)
          => IF Has(waitingclients_store, storeReq.Key)
             THEN /\ storePC' = "grant"
                  /\ OwnedNext(storeReq.Key)
                  /\ storeOut'.to = waitingclients_store[storeReq.Key].Reply
                  /\ storeOut'.Ok
                  /\ storeReq' = storeReq
                  /\ waitingclients_store' = waitingclients_store
             ELSE /\ storePC' = "recv"
                  /\ ~OwnedNext(storeReq.Key)
                  /\ ~Has(waitingclients_store', storeReq.Key)
     /\ storePC = "grant"
          => /\ IsKeyOwned(storeReq.Key)
             /\ \A r \in Procs : ~Taken(r)
     /\ (storePC = "grant" /\ StoreStep)
          => /\ storePC' = "recv"
             /\ OwnedNext(storeReq.Key)
             /\ ~Has(waitingclients_store', storeReq.Key)
             /\ pc'[storeOut.to] = "handle"
             /\ kvResp'[storeOut.to] = KVReply(storeOut.Value, TRUE)
             /\ \A r \in Procs \ {storeOut.to} : kvResp'[r] = kvResp[r]]_vars

\* C13 witness: the hand-off has just ended: the writer and the waiter both
\* hold their replies, the key is owned, its waiter slot is empty, and a third
\* requester has asked for nothing on the way.
C13_Witness ==
  \E k \in Keys : \E w, q \in Requesters :
    /\ w # q
    /\ storePC = "recv"
    /\ Has(lastPut, k)
    /\ pc[w] = "handle" /\ kvResp[w] = KVReply(lastPut[k], TRUE)
    /\ pc[q] = "handle" /\ kvResp[q] = KVReply(lastPut[k], TRUE)
    /\ IsKeyOwned(k)
    /\ ~Has(waitingclients_store, k)
    /\ grants[k] = 1
    /\ \A r \in Requesters \ {w, q} : pc[r] = "idle"

\* r's Read was deferred and the store no longer holds its reply channel
Orphaned(r) == Deferred(r) /\ ~HeldBy(r)

\* the same at the end of the step
OrphanedNext(r) ==
  /\ pc'[r] = "recvKV"
  /\ kvReq'[r].Op = KVRead
  /\ ~(storePC' \in {"reply", "grant"} /\ storeOut'.to = r)
  /\ \A k \in Keys : Has(waitingclients_store', k) => waitingclients_store'[k].Reply # r

\* C14. Single waiter slot: a Read on an owned key that already has a recorded
\* waiter replaces that waiter; the hand-off of the next successful Write goes
\* to the recorded (latest) waiter only; the replaced requester is held by the
\* store no more and so stays blocked for ever, whatever Writes follow.
C14_SingleWaiterSlot ==
  [][\A r \in Procs :
       /\ (Taken(r) /\ kvReq'[r].Op = KVRead /\ IsKeyOwned(kvReq'[r].Key)
             /\ Has(waitingclients_store, kvReq'[r].Key))
            => /\ waitingclients_store' =
                    MapSet(waitingclients_store, kvReq'[r].Key, kvReq'[r])
               /\ OrphanedNext(waitingclients_store[kvReq'[r].Key].Reply)
       /\ (storePC = "grant" /\ StoreStep /\ waitingclients_store[storeReq.Key].Reply # r)
            => (pc'[r] = pc[r] /\ kvResp'[r] = kvResp[r])
       /\ Orphaned(r) => (OrphanedNext(r) /\ kvResp'[r] = NoKVReply)]_vars

\* C14 witness: three requesters contended for a key; the first waiter was
\* replaced and is still blocked although the key has since been handed to the
\* second waiter and released again by a later Write.
C14_Witness ==
  \E r \in Requesters :
    /\ Orphaned(r)
    /\ ~IsKeyOwned(kvReq[r].Key)
    /\ Has(lastPut, kvReq[r].Key)
    /\ storePC = "recv"
    /\ \A q \in Requesters \ {r} : pc[q] = "idle"

RequestOf(c) ==
  KVRequest(IF clientAct[c].Type = ClientGet THEN KVRead ELSE KVWrite,
            clientAct[c].Key, clientAct[c].Value, c)

\* C16. One outstanding request per client: a client builds a request only when
\* it has none; while the request is unsent, or sent and unanswered, the client
\* takes no other action from its caller (whatever keys it holds) and its cache
\* does not change; the store consumes exactly the request of the action the
\* client is processing, so it sees a client's requests in the order issued.
C16_OneOutstanding ==
  [][\A c \in Clients :
       /\ pc[c] \in {"sendKV", "recvKV"}
            => /\ clientAct'[c] = clientAct[c]
               /\ cache'[c] = cache[c]
               /\ kvReq[c] = RequestOf(c)
               /\ pc'[c] \in {"sendKV", "recvKV", "handle"}
       /\ (kvReq'[c] # kvReq[c] /\ kvReq'[c] # NoReq)
            => /\ pc[c] = "idle"
               /\ kvReq[c] = NoReq
               /\ ~HeldBy(c)
               /\ pc'[c] = "sendKV"
       /\ Taken(c)
            => /\ pc[c] = "sendKV"
               /\ kvReq'[c] = kvReq[c]
               /\ \/ storeReq' = kvReq[c]
                  \/ waitingclients_store' = MapSet(waitingclients_store, kvReq[c].Key, kvReq[c])
       /\ HeldBy(c) => pc[c] = "recvKV"]_vars

\* C16 witness: a client that holds a key is blocked on its deferred Get of the
\* other key; the Put that would release the key it holds cannot be taken.
C16_Witness ==
  \E c \in Clients :
    /\ Deferred(c)
    /\ cache[c] # EmptyMap
    /\ ~Has(cache[c], kvReq[c].Key)
    /\ HeldBy(c)

\* C17. The store does not check who writes: a Write on a key present in the
\* value table is accepted whatever the ownership of the key and whoever sent
\* it; it sets the value, is answered with Ok = true and the written value, and
\* then releases the key, or hands it to the recorded waiter; so the Write of a
\* requester that was never granted the key ends the owner's ownership.
C17_WriteNotChecked ==
  [][\A r \in Procs :
       /\ (Taken(r) /\ kvReq'[r].Op = KVWrite /\ Has(store, kvReq'[r].Key))
            => /\ store' = MapSet(store, kvReq'[r].Key, kvReq'[r].Value)
               /\ storeOut' = [to |-> r, Value |-> kvReq'[r].Value, Ok |-> TRUE]
               /\ storePC' = "reply"
               /\ storeReq' = kvReq'[r]
       /\ (storePC = "reply" /\ storeOut.to = r /\ storeReq.Op = KVWrite
             /\ storeOut.Ok /\ StoreStep)
            => /\ kvResp'[r] = KVReply(storeReq.Value, TRUE)
               /\ IF Has(waitingclients_store, storeReq.Key)
                  THEN /\ OwnedNext(storeReq.Key)
                       /\ storeOut'.to = waitingclients_store[storeReq.Key].Reply
                  ELSE ~OwnedNext(storeReq.Key)]_vars

\* C17 witness: requester r still handles the grant of the only key there is
\* (fresh, value 0: it owns the key and has done nothing since), and the key is
\* unowned at the store because another requester wrote it.
C17_Witness ==
  \E k \in Keys : \E r, q \in Requesters :
    /\ r # q
    /\ DOMAIN store = {k}
    /\ pc[r] = "handle"
    /\ kvResp[r] = KVReply(0, TRUE)
    /\ pc[q] = "handle"
    /\ Has(lastPut, k)
    /\ kvResp[q] = KVReply(lastPut[k], TRUE)
    /\ ~IsKeyOwned(k)
    /\ storePC = "recv"

\* what an unknown operation must leave alone at the store
storeData == <<store, isKeyOwned_store, waitingclients_store, grants, lastPut>>

\* C18. Unknown operations are non-fatal. A request whose Op is neither read nor
\* write is answered with Value 0 and Ok = false, and the store's tables are
\* the same after it; an action whose Type is neither get nor put is answered
\* with Ok = false and Err "unknown action" without a request to the store and
\* with the cache unchanged; both the store and the client are back at their
\* receive afterwards.
C18_UnknownNonFatal ==
  [][/\ \A r \in Procs :
          (Taken(r) /\ kvReq'[r].Op \notin {KVRead, KVWrite})
            => /\ storePC' = "reply"
               /\ storeOut' = [to |-> r, Value |-> 0, Ok |-> FALSE]
               /\ storeData' = storeData
     /\ (storePC = "reply" /\ storeReq.Op \notin {KVRead, KVWrite} /\ StoreStep)
          => /\ kvResp'[storeOut.to] = KVReply(0, FALSE)
             /\ storePC' = "recv"
             /\ storeData' = storeData
     /\ \A c \in DemoClients :
          /\ (clientAct'[c] # clientAct[c] /\ clientAct'[c].Type \notin {ClientGet, ClientPut, "none"})
               => /\ clientReply'[c] = ClientReply(0, FALSE, FALSE, ErrUnknown)
                  /\ pc'[c] = "reply"
                  /\ kvReq'[c] = NoReq
                  /\ cache'[c] = cache[c]
                  /\ storeVars' = storeVars
          /\ (pc[c] = "reply" /\ clientAct[c].Type \notin {ClientGet, ClientPut} /\ pc'[c] # "reply")
               => /\ pc'[c] = "idle"
                  /\ cache'[c] = cache[c]
                  /\ storeVars' = storeVars]_vars

\* C18 witness: a requester holds the store's {0, false} for its unknown
\* operation, a client that holds a key is about to answer an unknown action
\* with the error, and the store is answering the Put of the other client.
C18_Witness ==
  \E r \in Directs : \E c, d \in DemoClients :
    /\ pc[r] = "handle"
    /\ kvResp[r] = KVReply(0, FALSE)
    /\ pc[c] = "reply"
    /\ clientReply[c] = ClientReply(0, FALSE, FALSE, ErrUnknown)
    /\ cache[c] # EmptyMap
    /\ storePC = "reply"
    /\ storeOut.to = d
    /\ storeOut.Ok
    /\ clientAct[d].Type = ClientPut

\* main is past close(kvReqCh), the last of its close calls
DemoClosed == ~AnyDriver /\ mainPC.i = WaitStep

\* in the demonstration the program is never stuck before wg.Wait() returns, and
\* the final close calls find both clients at their range and no waiter recorded
C19_DemoTerminates ==
  /\ (~AnyDriver /\ mainPC.phase # "done") => ENABLED NextDemo
  /\ DemoClosed
       => /\ kvReqClosed
          /\ waitingclients_store = EmptyMap
          /\ storePC \in {"recv", "done"}
          /\ \A c \in DemoClients : actionsClosed[c] /\ pc[c] \in {"idle", "done"}
  /\ (~AnyDriver /\ mainPC.phase = "done")
       => (storePC = "done" /\ \A c \in DemoClients : pc[c] = "done")

\* C19. Shutdown. The store ends exactly from its receive on the closed request
\* channel: it takes no request after the close, its next step there is its
\* end, and it does nothing after. A client ends exactly from its receive on
\* its closed action channel, and there its next step is its end. A client
\* that waits for the store when the store has ended stays there unanswered
\* for ever, so it never ends. In the demonstration the store and both clients
\* end after the final close calls.
C19_Shutdown ==
  /\ []C19_DemoTerminates
  /\ [][/\ (storePC' = "done" /\ storePC # "done") => (kvReqClosed /\ storePC = "recv")
        /\ (kvReqClosed /\ storePC = "recv" /\ StoreStep) => storePC' = "done"
        /\ kvReqClosed => \A p \in Procs : ~Taken(p)
        /\ storePC = "done" => storeVars' = storeVars
        /\ \A c \in DemoClients :
             /\ (pc'[c] = "done" /\ pc[c] # "done") => (actionsClosed[c] /\ pc[c] = "idle")
             /\ (actionsClosed[c] /\ pc[c] = "idle") => pc'[c] \in {"idle", "done"}
             /\ pc[c] = "done" => pc'[c] = "done"
             /\ (storePC = "done" /\ pc[c] = "recvKV")
                  => (pc'[c] = "recvKV" /\ kvResp'[c] = NoKVReply)]_vars

\* C19 witness: every channel is closed, the store and one client have ended,
\* and the other client is still recorded as the waiter of a key and blocked.
C19_Witness ==
  \E c, d \in DemoClients : \E k \in Keys :
    /\ c # d
    /\ storePC = "done"
    /\ Has(waitingclients_store, k)
    /\ waitingclients_store[k].Reply = c
    /\ pc[c] = "recvKV"
    /\ actionsClosed[c]
    /\ pc[d] = "done"

\* client c is processing a Put
Putting(c) == clientAct[c].Type = ClientPut

\* C20. Optimistic Put: a Put of v on a cached key K sets cache[K] to v in the
\* step that builds the Write, before the Write is sent, and the cache holds v
\* while the Write is unsent or unanswered; when the reply to the Write has
\* Ok = false the client answers Ok = false with Err "kv write failed (key
\* missing in store)", and K stays in the cache with value v, also after that
\* answer is delivered.
C20_OptimisticPut ==
  [][\A c \in DemoClients :
       /\ (clientAct'[c] # clientAct[c] /\ clientAct'[c].Type = ClientPut
             /\ Has(cache[c], clientAct'[c].Key))
            => /\ cache'[c] = MapSet(cache[c], clientAct'[c].Key, clientAct'[c].Value)
               /\ kvReq'[c] = KVRequest(KVWrite, clientAct'[c].Key, clientAct'[c].Value, c)
               /\ pc'[c] = "sendKV"
       /\ (Putting(c) /\ pc[c] \in {"sendKV", "recvKV", "handle"})
            => /\ Has(cache[c], clientAct[c].Key)
               /\ cache[c][clientAct[c].Key] = clientAct[c].Value
       /\ (Putting(c) /\ pc[c] = "handle" /\ ~kvResp[c].Ok /\ pc'[c] # "handle")
            => /\ pc'[c] = "reply"
               /\ clientReply'[c] = ClientReply(0, FALSE, FALSE, ErrWrite)
               /\ cache'[c] = cache[c]
       /\ (pc[c] = "reply" /\ clientReply[c].Err = ErrWrite /\ pc'[c] # "reply")
            => /\ pc'[c] = "idle"
               /\ cache'[c] = cache[c]
               /\ Has(cache[c], clientAct[c].Key)
               /\ cache[c][clientAct[c].Key] = clientAct[c].Value]_vars

\* C20 witness: a client that was given 0 for a key is about to answer a Put of
\* val1 on it with the write error, and its cache holds val1 for the key.
C20_Witness ==
  \E c \in DemoClients : \E k \in Keys :
    /\ pc[c] = "reply"
    /\ clientAct[c] = ClientAction(ClientPut, k, val1, "do")
    /\ clientReply[c] = ClientReply(0, FALSE, FALSE, ErrWrite)
    /\ Has(cache[c], k)
    /\ cache[c][k] = val1

\* the clients whose cache contains key k
Caching(k) == {c \in Clients : Has(cache[c], k)}

\* client c has received the store's reply to its Write on k and has not yet
\* run the code that follows the receive
Releasing(c, k) == Putting(c) /\ clientAct[c].Key = k /\ pc[c] = "handle"

\* C21 as stated. In every reachable state at most one client's cache contains
\* a given key, also between the store's reply to a releasing Write and the
\* releasing client's removal of the key from its cache.
C21_OneCachePerKey ==
  \A k \in Keys : Cardinality(Caching(k)) <= 1

\* C21, amended. In every reachable state at most one client's cache contains a
\* given key, the clients apart that have received the store's reply to their
\* Write on the key and have not yet removed it.
C21_OneCachePerKeyButReleasing ==
  \A k \in Keys : Cardinality({c \in Caching(k) : ~Releasing(c, k)}) <= 1

\* C21 witness: a client has been answered for its Put and still has the key in
\* its cache, and the other client already has the key in its cache too.
C21_Witness ==
  \E k \in Keys : \E c, d \in Clients :
    /\ c # d
    /\ Releasing(c, k)
    /\ Has(cache[c], k)
    /\ Has(cache[d], k)
    /\ pc[d] \in {"reply", "idle"}

\* C22. Store replies to clients never fail: in a system where only KVClients
\* send to the store, every reply a client holds from the store has Ok = true,
\* every key in a client's cache is present in the store's value table, every
\* reply the store is about to send has Ok = true, and no client answers
\* "kv read failed" or "kv write failed (key missing in store)".
C22_RepliesNeverFail ==
  /\ storePC \in {"reply", "grant"} => storeOut.Ok
  /\ \A c \in Clients :
       /\ kvResp[c].Set => kvResp[c].Ok
       /\ \A k \in Keys : Has(cache[c], k) => Has(store, k)
       /\ clientReply[c].Err \notin {ErrRead, ErrWrite}

\* C22 witness: one client holds the store's reply to its Write and another
\* the reply to its Read, both with Ok = true, the second for a key that was
\* written before.
C22_Witness ==
  \E c, d \in Clients :
    /\ c # d
    /\ pc[c] = "handle" /\ Putting(c) /\ kvResp[c].Ok
    /\ pc[d] = "handle" /\ clientAct[d].Type = ClientGet /\ kvResp[d].Ok
    /\ kvResp[d].Value # 0

\* the tables of the store agree: a recorded waiter is filed under the key it
\* asked for, that key is owned, and an owned key is in the value table
TablesAgree ==
  \A k \in Keys :
    /\ Has(waitingclients_store, k)
         => (waitingclients_store[k].Key = k /\ IsKeyOwned(k))
    /\ IsKeyOwned(k) => Has(store, k)

\* C23. Store table invariant: in every reachable state of KVStore, whatever
\* requests it is sent, a key with a recorded waiter is owned and an owned key
\* is in the value table; no step removes a key from the value table, and the
\* hand-off to a waiter finds the key present, so it never creates it with 0.
C23_StoreTables ==
  /\ []TablesAgree
  /\ [][/\ DOMAIN store \subseteq DOMAIN store'
        /\ storePC' = "grant" => store' = store]_vars

\* C23 witness: a waiter is recorded for an owned key that holds a written
\* value while the store hands the other key to its waiter.
C23_Witness ==
  \E k \in Keys :
    /\ Has(waitingclients_store, k)
    /\ IsKeyOwned(k)
    /\ Has(lastPut, k)
    /\ store[k] = lastPut[k]
    /\ storePC = "grant"
    /\ storeReq.Key # k

\* client c is in the middle of a Put on k: its Write is unsent, unanswered, or
\* answered and not yet handled
MidPut(c, k) ==
  Putting(c) /\ clientAct[c].Key = k /\ pc[c] \in {"sendKV", "recvKV", "handle"}

\* C24. Cached value equals store value: in a system where only KVClients send
\* to the store, whenever a client has K in its cache and is not in the middle
\* of a Put on K, the cached value is the value the store holds for K.
C24_CacheEqualsStore ==
  \A c \in Clients : \A k \in Keys :
    (Has(cache[c], k) /\ ~MidPut(c, k)) => (Has(store, k) /\ cache[c][k] = store[k])

\* C24 witness: a client holds a key with a value another client wrote, while
\* that other client is in the middle of a Put on the other key.
C24_Witness ==
  \E c, d \in Clients : \E k, j \in Keys :
    /\ c # d
    /\ k # j
    /\ pc[c] = "idle"
    /\ Has(cache[c], k)
    /\ cache[c][k] # 0
    /\ cache[c][k] = store[k]
    /\ MidPut(d, j)
    /\ pc[d] = "sendKV"
    /\ cache[d][j] # store[j]

\* ----- C25 -----
\* serve goroutines that were started and have not released their permit
Active == {i \in ReqIds : servePC[i] \in {"work", "reply", "bye"}}

\* the bound the claim names: maxConcurrent, or 1 when maxConcurrent <= 0
AdmissionLimit == IF maxConcurrent <= 0 THEN 1 ELSE maxConcurrent

\* the request whose send succeeded and whose SendUpcall has not run yet
PendingUpcall(i) == loadgenPC = "upcall" /\ wasSent /\ i = nextClientID - 1

\* the reply of request i was sent: it is in repCh or Loadgen has processed it
ReplySent(i) ==
  \/ \E j \in 1 .. Len(repCh) : repCh[j] = i
  \/ (i \notin sendTimes /\ ~PendingUpcall(i))

AdmissionBound ==
  /\ Cardinality(Active) <= AdmissionLimit
  /\ permissions = Cardinality(Active)
  /\ \A i \in ReqIds : servePC[i] \in {"bye", "done"} => ReplySent(i)
  /\ handlerPC = "acquire" => (handlerReq \in ReqIds /\ servePC[handlerReq] = "none")

\* a permit is given back only by a serve that has done its work and replied
ReleaseStep ==
  permissions' < permissions =>
    \E i \in ReqIds : /\ servePC[i] = "bye"
                      /\ servePC'[i] = "done"
                      /\ permissions' = permissions - 1

\* ReqHandler receives from reqCh
HandlerTakes == Len(reqCh') < Len(reqCh)

\* with every permit held no serve is started, and a handler that already
\* holds a request takes no other
FullStep ==
  permissions = AdmissionLimit =>
    /\ Active' \subseteq Active
    /\ handlerPC = "acquire" => ~HandlerTakes

\* C25 (as stated): at most maxConcurrent (1 when maxConcurrent <= 0) serve
\* goroutines hold a permit, a permit is released only after the work and the
\* reply, and ReqHandler takes no request from reqCh while maxConcurrent
\* permits are held.
C25_NoTakeWhileFull ==
  /\ []AdmissionBound
  /\ [][ReleaseStep /\ (permissions = AdmissionLimit => ~HandlerTakes)]_vars

\* C25 (amended): at most maxConcurrent (1 when maxConcurrent <= 0) serve
\* goroutines hold a permit, a permit is released only after the work and the
\* reply, and while maxConcurrent permits are held ReqHandler starts no serve
\* and takes at most one further request from reqCh, which it holds until a
\* permit is released.
C25_AdmissionBound ==
  /\ []AdmissionBound
  /\ [][ReleaseStep /\ FullStep]_vars

\* two permits of two are held, one of them by a serve that has replied, and
\* the handler waits with a third request
C25_Witness ==
  /\ maxConcurrent = 2
  /\ permissions = 2
  /\ handlerPC = "acquire"
  /\ \E i \in ReqIds : servePC[i] = "bye"

\* ----- C26 -----
\* requests that went into reqCh: still queued, held by the handler, or served
Delivered ==
  {i \in ReqIds : \/ \E j \in 1 .. Len(reqCh) : reqCh[j] = i
                  \/ handlerReq = i
                  \/ servePC[i] # "none"}

\* replies in repCh
InReply(i) == {j \in 1 .. Len(repCh) : repCh[j] = i}

Accounting ==
  /\ attempts = sent + skipped
  /\ sent = received + Cardinality(sendTimes)
  \* Loadgen's own counters and the statistics agree
  /\ attempts = (IF loadgenPC = "upcall" THEN sentAttempts - 1 ELSE sentAttempts)
  /\ nextClientID = sentAttempts
  \* the delivered requests are the sent ones, the others the skipped ones
  /\ Cardinality(Delivered) = sent + (IF loadgenPC = "upcall" /\ wasSent THEN 1 ELSE 0)
  /\ sendTimes \subseteq Delivered
  \* no request is answered twice, and an answer is for a delivered request
  /\ \A i \in ReqIds : /\ Cardinality(InReply(i)) <= 1
                       /\ InReply(i) # {} =>
                            (i \in Delivered /\ (i \in sendTimes \/ PendingUpcall(i)))
  \* at the return every attempt was made and every sent request was answered
  /\ (loadgenPC \in {"returned", "closed"} /\ loadN > 0) =>
        /\ attempts = loadN
        /\ received = sent
        /\ sendTimes = {}

\* a send that would block leaves reqCh alone and is counted as skipped, a
\* send that succeeds is counted as sent; a reply is counted once
AccountingStep ==
  /\ (loadgenPC = "loop" /\ loadgenPC' = "upcall") =>
        IF Len(reqCh) >= ChanCap
        THEN reqCh' = reqCh /\ ~wasSent'
        ELSE reqCh' = Append(reqCh, nextClientID) /\ wasSent'
  /\ (loadgenPC = "upcall" /\ loadgenPC' = "loop") =>
        /\ attempts' = attempts + 1
        /\ IF wasSent
           THEN sent' = sent + 1 /\ skipped' = skipped
           ELSE sent' = sent /\ skipped' = skipped + 1 /\ sendTimes' = sendTimes
  /\ received' # received =>
        /\ received' = received + 1
        /\ repCh # << >>
        /\ sendTimes' = sendTimes \ {Head(repCh)}

\* C26: after ResetStats attempts = sent + skipped and sent = received + the
\* number of entries of sendTimes in every state; a request whose non-blocking
\* send would block is counted as skipped and never delivered; when Loadgen(n)
\* with n > 0 returns, attempts = n and received = sent: every request that
\* was sent has had exactly one reply processed.
C26_LoadgenAccounting ==
  /\ []Accounting
  /\ [][AccountingStep]_vars

\* Loadgen returned from three attempts of which one was skipped and two were
\* sent and answered
C26_Witness ==
  /\ loadgenPC = "returned"
  /\ loadN = 3
  /\ skipped = 1
  /\ sent = 2
  /\ received = 2

====
